---------------------------- MODULE Spec2Model ----------------------------
(***************************************************************************)
(* Model of the billing engine: the loan ledger (domain/loan.go), the      *)
(* Money value type (domain/money.go) and the loan registry                *)
(* (service/billing_service.go).                                           *)
(*                                                                         *)
(* Money wraps a shopspring decimal, an arbitrary-precision exact decimal. *)
(* Every Money operation the ledger uses (Add, Sub, Mul, Equal, IsZero,    *)
(* IsNegative) depends only on the numeric value, never on the             *)
(* coefficient/exponent pair, so a Money is modelled by its value counted  *)
(* in units of 1/Scale.  Payment.PaidAt (time.Now()) is never read by the  *)
(* code and is left out of the Payment record.                             *)
(***************************************************************************)
EXTENDS Integers, Sequences, FiniteSets, TLC

VARIABLES
    loans,      \* BillingService.loans: map[string]*domain.Loan
    last,       \* the last completed call: operation, arguments, result, registry before it
    mu,         \* BillingService.mu: the writer holding it and the readers holding it
    pc,         \* per caller: position inside its registry call
    call,       \* per caller: the call it is making (operation and arguments)
    result,     \* per caller: what its call returned
    view        \* the slice a caller kept from GetSchedule or GetPaymentHistory

vars == <<loans, last, mu, pc, call, result, view>>

----------------------------------------------------------------------------
(* Program constants *)

LoanDurationWeeks == 50

DelinquencyThreshold == 2

\* Money values are counted in thousandths of a currency unit
Scale == 1000

----------------------------------------------------------------------------
(* Inputs of the model *)

\* Loan identifiers callers use with the single-loan specification
LedgerIDs == {"loan-100"}

BorrowerIDs == {"borrower-123"}

\* NewMoney(principal) for these int64 values; CreateLoan validates none of them
Principals == {-1000, 0, 5000}

\* Payment amounts callers offer, in 1/Scale units: a negative one, zero, an
\* underpayment and the weekly payment of a loan of principal 5000
Amounts == {-22000, 0, 100000, 110000}

\* Week numbers callers offer to pay: 0 and LoanDurationWeeks + 1 are out of range
WeekInputs == 0 .. (LoanDurationWeeks + 1)

\* Weeks callers set the clock to: the first weeks and the last ones, with the
\* out-of-range 0 and LoanDurationWeeks + 1
MaxEarlyWeek == 3

CurrentWeekInputs ==
    (0 .. MaxEarlyWeek) \cup ((LoanDurationWeeks - 1) .. (LoanDurationWeeks + 1))

\* Principals of the loans whose terms are computed, in currency units
MaxPrincipal == 12

TermPrincipals == (0 .. MaxPrincipal) \cup {5000}

\* How many times a caller changes a slice it keeps
MaxWrites == 1

\* Loan identifiers callers use with the two-loan specification
LoanIDs == {"loan-100", "loan-200"}

\* With two loans, callers offer to pay week 0, the first weeks and the
\* out-of-range week, and set the clock to weeks 0 and 2
MaxRegWeek == 3

RegWeekInputs == (0 .. MaxRegWeek) \cup {LoanDurationWeeks + 1}

RegCurrentWeekInputs == {0, 2}

RegPrincipals == {0, 5000}

RegAmounts == {-22000, 100000, 110000}

\* Concurrent callers of the registry
NumCallers == 3

Callers == 1 .. NumCallers

\* Concurrent callers find a loan of one of these principals on which this many
\* weeks have been paid, and offer these amounts for these weeks
ConcPrincipals == {0, 5000}

ConcPaidWeeks == {0, 1, LoanDurationWeeks - 1}

ConcAmounts == {0, 110000}

ConcWeekInputs == {1, 2, LoanDurationWeeks}

----------------------------------------------------------------------------
(* domain/money.go *)

NewMoney(amount) == amount * Scale

IsZero(m) == m = 0

IsNegative(m) == m < 0

Equals(m, other) == m = other

Add(m, other) == m + other

Subtract(m, other) == m - other

\* decimal Mul is exact; the multiplier is a decimal at the same scale
Multiply(m, multiplier) == (m * multiplier) \div Scale

\* decimal.NewFromInt(n)
NewFromInt(n) == n * Scale

\* Variant: division that keeps whole units only
DivWhole(d, d2) == (d \div d2) * Scale

\* decimal Div: exact to 16 places, so 1/50 is exactly 0.02
Div(d, d2) == (d * Scale) \div d2

----------------------------------------------------------------------------
(* domain/errors.go *)

ErrInvalidPaymentAmount == "ErrInvalidPaymentAmount"
ErrNegativeAmount == "ErrNegativeAmount"
ErrInvalidWeekNumber == "ErrInvalidWeekNumber"
ErrLoanFullyPaid == "ErrLoanFullyPaid"
ErrWeekAlreadyPaid == "ErrWeekAlreadyPaid"
ErrPaymentOutOfSequence == "ErrPaymentOutOfSequence"

\* the nil error
Nil == "nil"

\* fmt.Errorf("loan with ID %s not found", loanID)
ErrNotFound == "loan not found"

\* fmt.Errorf("loan with ID %s already exists", loanID)
ErrAlreadyExists == "loan already exists"

----------------------------------------------------------------------------
(* domain/loan.go *)

ScheduleEntry(weekNumber, amount, isPaid) ==
    [WeekNumber |-> weekNumber, Amount |-> amount, IsPaid |-> isPaid]

Payment(weekNumber, amount) ==
    [WeekNumber |-> weekNumber, Amount |-> amount]

NewLoan(id, borrowerID, principal, annualInterestRate) ==
    LET interest == Multiply(principal, annualInterestRate)
        totalAmount == Add(principal, interest)
        weeklyPayment ==
            Multiply(totalAmount, Div(NewFromInt(1), NewFromInt(LoanDurationWeeks)))
    IN  [ID |-> id,
         BorrowerID |-> borrowerID,
         Principal |-> principal,
         InterestRate |-> annualInterestRate,
         TotalAmount |-> totalAmount,
         WeeklyPayment |-> weeklyPayment,
         Schedule |-> [i \in 1 .. LoanDurationWeeks |->
                          ScheduleEntry(i, weeklyPayment, FALSE)],
         Payments |-> << >>,
         CurrentWeek |-> 1]

RECURSIVE TotalPaid(_)
TotalPaid(payments) ==
    IF payments = << >> THEN NewMoney(0)
    ELSE Add(TotalPaid(SubSeq(payments, 1, Len(payments) - 1)),
             payments[Len(payments)].Amount)

\* Variant: the total is subtracted from the amount paid
GetOutstandingReversed(l) == Subtract(TotalPaid(l.Payments), l.TotalAmount)

GetOutstanding(l) == Subtract(l.TotalAmount, TotalPaid(l.Payments))

RECURSIVE LastPaidWeek(_, _, _)
LastPaidWeek(schedule, i, lastPaidWeek) ==
    IF i > Len(schedule) THEN lastPaidWeek
    ELSE LastPaidWeek(schedule, i + 1,
             IF schedule[i].IsPaid /\ schedule[i].WeekNumber > lastPaidWeek
             THEN schedule[i].WeekNumber ELSE lastPaidWeek)

\* Variant: delinquent only when more than the threshold behind
IsDelinquentStrict(l) ==
    LET lastPaidWeek == LastPaidWeek(l.Schedule, 1, 0)
        weeksBehind == l.CurrentWeek - lastPaidWeek
    IN  weeksBehind > DelinquencyThreshold

IsDelinquent(l) ==
    LET lastPaidWeek == LastPaidWeek(l.Schedule, 1, 0)
        weeksBehind == l.CurrentWeek - lastPaidWeek
    IN  weeksBehind >= DelinquencyThreshold

\* Variant: any week below the end of the term is accepted
LoanSetCurrentWeekNoLowerBound(l, week) ==
    IF week <= LoanDurationWeeks
    THEN [l EXCEPT !.CurrentWeek = week]
    ELSE l

LoanSetCurrentWeek(l, week) ==
    IF week >= 1 /\ week <= LoanDurationWeeks
    THEN [l EXCEPT !.CurrentWeek = week]
    ELSE l

RECURSIVE FirstUnpaidFrom(_, _)
FirstUnpaidFrom(schedule, i) ==
    IF i > Len(schedule) THEN 0
    ELSE IF ~schedule[i].IsPaid THEN schedule[i].WeekNumber
    ELSE FirstUnpaidFrom(schedule, i + 1)

findFirstUnpaidWeek(l) == FirstUnpaidFrom(l.Schedule, 1)

GetNextDueWeek(l) == findFirstUnpaidWeek(l)

IsClosed(l) == IsZero(GetOutstanding(l))

\* A slice value: its elements and the backing array they live in, "own" for an
\* array no other slice refers to, "loan" for the array of the loan's own slice
Slice(array, data) == [array |-> array, data |-> data]

\* Variant: the loan's own schedule slice is returned
GetScheduleShared(l) == Slice("loan", l.Schedule)

\* Variant: the loan's own payment slice is returned
GetPaymentHistoryShared(l) == Slice("loan", l.Payments)

\* make([]ScheduleEntry, len(l.Schedule)) and copy: a new array with the entries
GetSchedule(l) == Slice("own", [i \in 1 .. Len(l.Schedule) |-> l.Schedule[i]])

\* make([]Payment, len(l.Payments)) and copy: a new array with the payments
GetPaymentHistory(l) == Slice("own", [i \in 1 .. Len(l.Payments) |-> l.Payments[i]])

\* Variant: the week number is validated before the fully-paid check
MakePaymentErrorWeekFirst(l, amount, weekNumber) ==
    IF IsNegative(amount) THEN ErrNegativeAmount
    ELSE IF ~Equals(amount, l.WeeklyPayment) THEN ErrInvalidPaymentAmount
    ELSE IF weekNumber < 1 \/ weekNumber > LoanDurationWeeks THEN ErrInvalidWeekNumber
    ELSE IF IsZero(GetOutstanding(l)) THEN ErrLoanFullyPaid
    ELSE IF l.Schedule[weekNumber].IsPaid THEN ErrWeekAlreadyPaid
    ELSE IF weekNumber # findFirstUnpaidWeek(l) THEN ErrPaymentOutOfSequence
    ELSE Nil

\* Variant: the sequence check is missing
MakePaymentErrorNoSequence(l, amount, weekNumber) ==
    IF IsNegative(amount) THEN ErrNegativeAmount
    ELSE IF ~Equals(amount, l.WeeklyPayment) THEN ErrInvalidPaymentAmount
    ELSE IF IsZero(GetOutstanding(l)) THEN ErrLoanFullyPaid
    ELSE IF weekNumber < 1 \/ weekNumber > LoanDurationWeeks THEN ErrInvalidWeekNumber
    ELSE IF l.Schedule[weekNumber].IsPaid THEN ErrWeekAlreadyPaid
    ELSE Nil

\* Variant: the fully-paid check is missing
MakePaymentErrorNoFullyPaid(l, amount, weekNumber) ==
    IF IsNegative(amount) THEN ErrNegativeAmount
    ELSE IF ~Equals(amount, l.WeeklyPayment) THEN ErrInvalidPaymentAmount
    ELSE IF weekNumber < 1 \/ weekNumber > LoanDurationWeeks THEN ErrInvalidWeekNumber
    ELSE IF l.Schedule[weekNumber].IsPaid THEN ErrWeekAlreadyPaid
    ELSE IF weekNumber # findFirstUnpaidWeek(l) THEN ErrPaymentOutOfSequence
    ELSE Nil

\* Variant: any non-negative amount is accepted
MakePaymentErrorAnyAmount(l, amount, weekNumber) ==
    IF IsNegative(amount) THEN ErrNegativeAmount
    ELSE IF IsZero(GetOutstanding(l)) THEN ErrLoanFullyPaid
    ELSE IF weekNumber < 1 \/ weekNumber > LoanDurationWeeks THEN ErrInvalidWeekNumber
    ELSE IF l.Schedule[weekNumber].IsPaid THEN ErrWeekAlreadyPaid
    ELSE IF weekNumber # findFirstUnpaidWeek(l) THEN ErrPaymentOutOfSequence
    ELSE Nil

\* Variant: a week after the loan's current week is not accepted
MakePaymentErrorNotAhead(l, amount, weekNumber) ==
    IF IsNegative(amount) THEN ErrNegativeAmount
    ELSE IF ~Equals(amount, l.WeeklyPayment) THEN ErrInvalidPaymentAmount
    ELSE IF IsZero(GetOutstanding(l)) THEN ErrLoanFullyPaid
    ELSE IF weekNumber < 1 \/ weekNumber > LoanDurationWeeks THEN ErrInvalidWeekNumber
    ELSE IF weekNumber > l.CurrentWeek THEN ErrInvalidWeekNumber
    ELSE IF l.Schedule[weekNumber].IsPaid THEN ErrWeekAlreadyPaid
    ELSE IF weekNumber # findFirstUnpaidWeek(l) THEN ErrPaymentOutOfSequence
    ELSE Nil

\* The validation chain of Loan.MakePayment: the error it returns, Nil if none
MakePaymentError(l, amount, weekNumber) ==
    IF IsNegative(amount) THEN ErrNegativeAmount
    ELSE IF ~Equals(amount, l.WeeklyPayment) THEN ErrInvalidPaymentAmount
    ELSE IF IsZero(GetOutstanding(l)) THEN ErrLoanFullyPaid
    ELSE IF weekNumber < 1 \/ weekNumber > LoanDurationWeeks THEN ErrInvalidWeekNumber
    ELSE IF l.Schedule[weekNumber].IsPaid THEN ErrWeekAlreadyPaid
    ELSE IF weekNumber # findFirstUnpaidWeek(l) THEN ErrPaymentOutOfSequence
    ELSE Nil

\* Variant: the log keeps the latest payment only
AppendPaymentKeepsLatest(l, amount, weekNumber) ==
    [l EXCEPT !.Payments = <<Payment(weekNumber, amount)>>]

\* Variant: the payment is put in front of the log
AppendPaymentInFront(l, amount, weekNumber) ==
    [l EXCEPT !.Payments = <<Payment(weekNumber, amount)>> \o @]

\* The two writes of a successful Loan.MakePayment, in program order
AppendPayment(l, amount, weekNumber) ==
    [l EXCEPT !.Payments = Append(@, Payment(weekNumber, amount))]

\* Variant: the schedule entry is left unpaid
MarkPaidForgotten(l, weekNumber) == l

\* Variant: the schedule entry is replaced by a new, paid entry without amount
MarkPaidNewEntry(l, weekNumber) ==
    [l EXCEPT !.Schedule[weekNumber] = ScheduleEntry(weekNumber, NewMoney(0), TRUE)]

\* Variant: the week number is used as the index, so the next entry is marked
MarkPaidNextEntry(l, weekNumber) ==
    IF weekNumber < LoanDurationWeeks
    THEN [l EXCEPT !.Schedule[weekNumber + 1].IsPaid = TRUE]
    ELSE l

MarkPaid(l, weekNumber) ==
    [l EXCEPT !.Schedule[weekNumber].IsPaid = TRUE]

\* Variant: the payment is recorded before the sequence check
LoanMakePaymentRecordFirst(l, amount, weekNumber) ==
    LET err == MakePaymentError(l, amount, weekNumber)
    IN  IF err = ErrPaymentOutOfSequence
        THEN [err |-> err, loan |-> AppendPayment(l, amount, weekNumber)]
        ELSE IF err # Nil THEN [err |-> err, loan |-> l]
        ELSE [err |-> Nil,
              loan |-> MarkPaid(AppendPayment(l, amount, weekNumber), weekNumber)]

\* Loan.MakePayment as one call: the error returned and the loan afterwards
LoanMakePayment(l, amount, weekNumber) ==
    LET err == MakePaymentError(l, amount, weekNumber)
    IN  IF err # Nil THEN [err |-> err, loan |-> l]
        ELSE [err |-> Nil,
              loan |-> MarkPaid(AppendPayment(l, amount, weekNumber), weekNumber)]

----------------------------------------------------------------------------
(* service/billing_service.go, one call at a time *)

\* decimal.NewFromFloat(0.10)
AnnualInterestRate == Scale \div 10

Exists(loanID) == loanID \in DOMAIN loans

\* Arguments a call does not take
NoWeek == 0 - 1
NoAmount == 0 - 1
NoLoan == "nil"

\* The caller keeps no slice
NoView ==
    [kind |-> "none", id |-> "", array |-> "own", data |-> << >>, writes |-> 0,
     by |-> 0]

\* What a kept slice shows once a call has left the registry as newLoans: a
\* slice on the loan's own schedule array shows the entries MakePayment marks,
\* a slice on an array of its own shows what it showed
ViewAfter(v, newLoans) ==
    IF v.array = "loan" /\ v.kind = "GetSchedule" /\ v.id \in DOMAIN newLoans
    THEN [v EXCEPT !.data = SubSeq(newLoans[v.id].Schedule, 1, Len(v.data))]
    ELSE v

\* The caller has no completed call whose result it still holds
Idle ==
    [op |-> "none", id |-> "", amount |-> NoAmount, week |-> NoWeek,
     err |-> Nil, ret |-> NoLoan, val |-> << >>, pre |-> << >>]

\* The call returns: what was called, what it returned (err, and ret: the *Loan
\* CreateLoan returns, named by its identifier), and the registry before the call
Done(op, loanID, amount, weekNumber, err, ret) ==
    /\ last' = [op |-> op, id |-> loanID, amount |-> amount, week |-> weekNumber,
                err |-> err, ret |-> ret, val |-> << >>, pre |-> loans]
    /\ view' = ViewAfter(view, loans')

Sequential == UNCHANGED <<mu, pc, call, result>>

\* Variant: an existing loan is replaced
CreateLoanOverwrite(loanID, borrowerID, principal) ==
    /\ loans' = [id \in DOMAIN loans \cup {loanID} |->
                     IF id = loanID
                     THEN NewLoan(loanID, borrowerID, principal, AnnualInterestRate)
                     ELSE loans[id]]
    /\ Done("CreateLoan", loanID, principal, NoWeek, Nil, loanID)
    /\ Sequential

CreateLoan(loanID, borrowerID, principal) ==
    /\ IF Exists(loanID)
       THEN /\ UNCHANGED loans
            /\ Done("CreateLoan", loanID, principal, NoWeek, ErrAlreadyExists, NoLoan)
       ELSE /\ loans' = loans @@
                 (loanID :> NewLoan(loanID, borrowerID, principal, AnnualInterestRate))
            /\ Done("CreateLoan", loanID, principal, NoWeek, Nil, loanID)
    /\ Sequential

\* Variant: the payment is made on every loan of the registry
MakePaymentOnEveryLoan(loanID, amount, weekNumber) ==
    /\ IF ~Exists(loanID)
       THEN /\ UNCHANGED loans
            /\ Done("MakePayment", loanID, amount, weekNumber, ErrNotFound, NoLoan)
       ELSE LET r == LoanMakePayment(loans[loanID], amount, weekNumber)
            IN  /\ loans' = [id \in DOMAIN loans |->
                                 LoanMakePayment(loans[id], amount, weekNumber).loan]
                /\ Done("MakePayment", loanID, amount, weekNumber, r.err, NoLoan)
    /\ Sequential

MakePayment(loanID, amount, weekNumber) ==
    /\ IF ~Exists(loanID)
       THEN /\ UNCHANGED loans
            /\ Done("MakePayment", loanID, amount, weekNumber, ErrNotFound, NoLoan)
       ELSE LET r == LoanMakePayment(loans[loanID], amount, weekNumber)
            IN  /\ loans' = [loans EXCEPT ![loanID] = r.loan]
                /\ Done("MakePayment", loanID, amount, weekNumber, r.err, NoLoan)
    /\ Sequential

\* Variant: the next week is handed to Loan.MakePayment without the zero test
MakeNextPaymentNoZeroTest(loanID, amount) ==
    /\ IF ~Exists(loanID)
       THEN /\ UNCHANGED loans
            /\ Done("MakeNextPayment", loanID, amount, NoWeek, ErrNotFound, NoLoan)
       ELSE LET nextWeek == GetNextDueWeek(loans[loanID])
                r == LoanMakePayment(loans[loanID], amount, nextWeek)
            IN  /\ loans' = [loans EXCEPT ![loanID] = r.loan]
                /\ Done("MakeNextPayment", loanID, amount, NoWeek, r.err, NoLoan)
    /\ Sequential

MakeNextPayment(loanID, amount) ==
    /\ IF ~Exists(loanID)
       THEN /\ UNCHANGED loans
            /\ Done("MakeNextPayment", loanID, amount, NoWeek, ErrNotFound, NoLoan)
       ELSE LET nextWeek == GetNextDueWeek(loans[loanID])
            IN  IF nextWeek = 0
                THEN /\ UNCHANGED loans
                     /\ Done("MakeNextPayment", loanID, amount, NoWeek,
                             ErrLoanFullyPaid, NoLoan)
                ELSE LET r == LoanMakePayment(loans[loanID], amount, nextWeek)
                     IN  /\ loans' = [loans EXCEPT ![loanID] = r.loan]
                         /\ Done("MakeNextPayment", loanID, amount, NoWeek, r.err, NoLoan)
    /\ Sequential

\* A caller invoking Loan.MakePayment on the *Loan that CreateLoan returned
DirectMakePayment(loanID, amount, weekNumber) ==
    /\ Exists(loanID)
    /\ LET r == LoanMakePayment(loans[loanID], amount, weekNumber)
       IN  /\ loans' = [loans EXCEPT ![loanID] = r.loan]
           /\ Done("Loan.MakePayment", loanID, amount, weekNumber, r.err, NoLoan)
    /\ Sequential

\* A caller invoking Loan.SetCurrentWeek on the *Loan that CreateLoan returned
SetCurrentWeek(loanID, week) ==
    /\ Exists(loanID)
    /\ loans' = [loans EXCEPT ![loanID] = LoanSetCurrentWeek(@, week)]
    /\ Done("SetCurrentWeek", loanID, NoAmount, week, Nil, NoLoan)
    /\ Sequential

\* A query returns: the value it returned is val's only element (no element for a
\* nil slice); the registry is as it was and so is a slice the caller keeps
Answer(op, loanID, err, ret, val) ==
    /\ last' = [op |-> op, id |-> loanID, amount |-> NoAmount, week |-> NoWeek,
                err |-> err, ret |-> ret, val |-> val, pre |-> loans]
    /\ UNCHANGED <<loans, view>>

GetLoan(loanID) ==
    /\ IF ~Exists(loanID)
       THEN Answer("GetLoan", loanID, ErrNotFound, NoLoan, << >>)
       ELSE Answer("GetLoan", loanID, Nil, loanID, << >>)
    /\ Sequential

\* Variant: a missing loan owes nothing and that is no error
ServiceGetOutstandingNoError(loanID) ==
    /\ IF ~Exists(loanID)
       THEN Answer("GetOutstanding", loanID, Nil, NoLoan, <<NewMoney(0)>>)
       ELSE Answer("GetOutstanding", loanID, Nil, NoLoan,
                   <<GetOutstanding(loans[loanID])>>)
    /\ Sequential

\* BillingService.GetOutstanding; domain.Money{} is the zero amount
ServiceGetOutstanding(loanID) ==
    /\ IF ~Exists(loanID)
       THEN Answer("GetOutstanding", loanID, ErrNotFound, NoLoan, <<NewMoney(0)>>)
       ELSE Answer("GetOutstanding", loanID, Nil, NoLoan,
                   <<GetOutstanding(loans[loanID])>>)
    /\ Sequential

\* BillingService.IsDelinquent
ServiceIsDelinquent(loanID) ==
    /\ IF ~Exists(loanID)
       THEN Answer("IsDelinquent", loanID, ErrNotFound, NoLoan, <<FALSE>>)
       ELSE Answer("IsDelinquent", loanID, Nil, NoLoan,
                   <<IsDelinquent(loans[loanID])>>)
    /\ Sequential

\* BillingService.GetSchedule
ServiceGetSchedule(loanID) ==
    /\ IF ~Exists(loanID)
       THEN Answer("GetSchedule", loanID, ErrNotFound, NoLoan, << >>)
       ELSE Answer("GetSchedule", loanID, Nil, NoLoan,
                   <<GetSchedule(loans[loanID])>>)
    /\ Sequential

\* BillingService.GetPaymentHistory
ServiceGetPaymentHistory(loanID) ==
    /\ IF ~Exists(loanID)
       THEN Answer("GetPaymentHistory", loanID, ErrNotFound, NoLoan, << >>)
       ELSE Answer("GetPaymentHistory", loanID, Nil, NoLoan,
                   <<GetPaymentHistory(loans[loanID])>>)
    /\ Sequential

\* The caller keeps the slice its GetSchedule or GetPaymentHistory call returned
Keep ==
    /\ last.op \in {"GetSchedule", "GetPaymentHistory"}
    /\ last.err = Nil
    /\ view' = [kind |-> last.op, id |-> last.id, array |-> last.val[1].array,
                data |-> last.val[1].data, writes |-> 0, by |-> 0]
    /\ last' = Idle
    /\ UNCHANGED loans
    /\ Sequential

\* The element a caller writes over element e of a slice it keeps
Overwritten(e, kind) ==
    IF kind = "GetSchedule" THEN [e EXCEPT !.IsPaid = ~@]
    ELSE [e EXCEPT !.Amount = NewMoney(0)]

\* The registry after element i of the array behind slice v was written: the
\* loan's own slice shows the element too when the array is the loan's
WrittenThrough(v, i) ==
    IF v.array = "loan" /\ v.id \in DOMAIN loans
    THEN IF v.kind = "GetSchedule"
         THEN [loans EXCEPT ![v.id].Schedule[i] = Overwritten(@, v.kind)]
         ELSE IF i <= Len(loans[v.id].Payments)
              THEN [loans EXCEPT ![v.id].Payments[i] = Overwritten(@, v.kind)]
              ELSE loans
    ELSE loans

\* The caller assigns to element i of the slice it keeps
WriteSlice(i) ==
    /\ view.kind # "none"
    /\ view.writes < MaxWrites
    /\ i \in DOMAIN view.data
    /\ view' = [view EXCEPT !.data[i] = Overwritten(@, view.kind),
                            !.writes = @ + 1]
    /\ loans' = WrittenThrough(view, i)
    /\ UNCHANGED last
    /\ Sequential

\* The caller reslices the slice it keeps to one element less: only its own
\* slice header changes
TruncateSlice ==
    /\ view.kind # "none"
    /\ view.writes < MaxWrites
    /\ view.data # << >>
    /\ view' = [view EXCEPT !.data = SubSeq(@, 1, Len(@) - 1), !.writes = @ + 1]
    /\ UNCHANGED <<loans, last>>
    /\ Sequential

\* The caller appends a copy of the first element to the slice it keeps: the
\* slice is full (len == cap), so append moves it to a new array
AppendSlice ==
    /\ view.kind # "none"
    /\ view.writes < MaxWrites
    /\ view.data # << >>
    /\ view' = [view EXCEPT !.data = Append(@, @[1]), !.array = "own",
                            !.writes = @ + 1]
    /\ UNCHANGED <<loans, last>>
    /\ Sequential

\* The caller takes the result of its call and is ready to make the next one
Return ==
    /\ last # Idle
    /\ last' = Idle
    /\ UNCHANGED <<loans, view>>
    /\ Sequential

----------------------------------------------------------------------------
(* Specification of one loan used through the registry, one call at a time *)

Init ==
    /\ loans = << >>
    /\ last = Idle
    /\ mu = [writer |-> 0, readers |-> {}]
    /\ pc = [c \in Callers |-> "idle"]
    /\ call = [c \in Callers |-> [op |-> "none", id |-> "", amount |-> NoAmount,
                                   week |-> NoWeek]]
    /\ result = [c \in Callers |-> "none"]
    /\ view = NoView

Next ==
    \/ \E id \in LedgerIDs, b \in BorrowerIDs, p \in Principals :
           last = Idle /\ CreateLoan(id, b, NewMoney(p))
    \/ \E id \in LedgerIDs, a \in Amounts, w \in WeekInputs :
           last = Idle /\ MakePayment(id, a, w)
    \/ \E id \in LedgerIDs, a \in Amounts :
           last = Idle /\ MakeNextPayment(id, a)
    \/ \E id \in LedgerIDs, a \in Amounts, w \in WeekInputs :
           last = Idle /\ DirectMakePayment(id, a, w)
    \/ \E id \in LedgerIDs, w \in CurrentWeekInputs :
           last = Idle /\ SetCurrentWeek(id, w)
    \/ Return

Spec == Init /\ [][Next]_vars

----------------------------------------------------------------------------
(* Specification of two loans in the registry, one call at a time *)

NextReg ==
    \/ \E id \in LoanIDs, b \in BorrowerIDs, p \in RegPrincipals :
           last = Idle /\ CreateLoan(id, b, NewMoney(p))
    \/ \E id \in LoanIDs, a \in RegAmounts, w \in RegWeekInputs :
           last = Idle /\ MakePayment(id, a, w)
    \/ \E id \in LoanIDs, a \in RegAmounts :
           /\ last = Idle
           /\ Exists(id) => Len(loans[id].Payments) < MaxRegWeek
           /\ MakeNextPayment(id, a)
    \/ \E id \in LoanIDs, w \in RegCurrentWeekInputs :
           last = Idle /\ SetCurrentWeek(id, w)
    \/ \E id \in LoanIDs : last = Idle /\ GetLoan(id)
    \/ \E id \in LoanIDs : last = Idle /\ ServiceGetOutstanding(id)
    \/ \E id \in LoanIDs : last = Idle /\ ServiceIsDelinquent(id)
    \/ \E id \in LoanIDs : last = Idle /\ ServiceGetSchedule(id)
    \/ \E id \in LoanIDs : last = Idle /\ ServiceGetPaymentHistory(id)
    \/ Return

SpecReg == Init /\ [][NextReg]_vars

----------------------------------------------------------------------------
(* Specification of one loan whose clock is set to every week *)

NextWeek ==
    \/ \E id \in LedgerIDs, b \in BorrowerIDs, p \in Principals :
           last = Idle /\ CreateLoan(id, b, NewMoney(p))
    \/ \E id \in LedgerIDs, a \in Amounts :
           last = Idle /\ MakeNextPayment(id, a)
    \/ \E id \in LedgerIDs, w \in WeekInputs :
           last = Idle /\ SetCurrentWeek(id, w)
    \/ Return

SpecWeek == Init /\ [][NextWeek]_vars

----------------------------------------------------------------------------
(* Specification of loans of many principals paid off with their own weekly *)
(* payment                                                                  *)

NextTerms ==
    \/ \E id \in LedgerIDs, b \in BorrowerIDs, p \in TermPrincipals :
           last = Idle /\ CreateLoan(id, b, NewMoney(p))
    \/ \E id \in LedgerIDs :
           last = Idle /\ Exists(id) /\ MakeNextPayment(id, loans[id].WeeklyPayment)
    \/ Return

SpecTerms == Init /\ [][NextTerms]_vars

----------------------------------------------------------------------------
(* Specification of a caller that keeps and changes the slices it is returned *)

NextView ==
    \/ \E id \in LedgerIDs, b \in BorrowerIDs, p \in RegPrincipals :
           last = Idle /\ CreateLoan(id, b, NewMoney(p))
    \/ \E id \in LedgerIDs, a \in RegAmounts, w \in RegWeekInputs :
           last = Idle /\ MakePayment(id, a, w)
    \/ \E id \in LedgerIDs : last = Idle /\ ServiceGetSchedule(id)
    \/ \E id \in LedgerIDs : last = Idle /\ ServiceGetPaymentHistory(id)
    \/ Keep
    \/ \E i \in 1 .. MaxRegWeek : last = Idle /\ WriteSlice(i)
    \/ last = Idle /\ TruncateSlice
    \/ last = Idle /\ AppendSlice
    \/ Return

SpecView == Init /\ [][NextView]_vars

----------------------------------------------------------------------------
(* service/billing_service.go, concurrent callers: each statement that reads  *)
(* or writes the registry or a loan is one step                              *)

NoCall == [op |-> "none", id |-> "", amount |-> NoAmount, week |-> NoWeek]

NoResult == "none"

Unlocked == [writer |-> 0, readers |-> {}]

\* The caller starts a call of BillingService.MakePayment
BeginMakePayment(c, loanID, amount, weekNumber) ==
    /\ pc[c] = "idle"
    /\ call' = [call EXCEPT ![c] = [op |-> "MakePayment", id |-> loanID,
                                    amount |-> amount, week |-> weekNumber]]
    /\ pc' = [pc EXCEPT ![c] = "Lock"]
    /\ UNCHANGED <<view, loans, last, mu, result>>

\* Where a call goes on once it holds the exclusive lock
AfterLock(c) ==
    CASE call[c].op = "CreateLoan" -> "exists"
      [] call[c].op = "MakeNextPayment" -> "next"
      [] OTHER -> "validate"

\* Variant: the lock is taken whoever holds it
LockNoExclusion(c) ==
    /\ pc[c] = "Lock"
    /\ mu' = [mu EXCEPT !.writer = c]
    /\ pc' = [pc EXCEPT ![c] = AfterLock(c)]
    /\ UNCHANGED <<view, loans, last, call, result>>

\* s.mu.Lock(): waits until no writer and no reader holds the lock
Lock(c) ==
    /\ pc[c] = "Lock"
    /\ mu.writer = 0 /\ mu.readers = {}
    /\ mu' = [mu EXCEPT !.writer = c]
    /\ pc' = [pc EXCEPT ![c] = AfterLock(c)]
    /\ UNCHANGED <<view, loans, last, call, result>>

\* The map lookup and the checks of Loan.MakePayment, which only read
Validate(c) ==
    /\ pc[c] = "validate"
    /\ IF ~Exists(call[c].id)
       THEN /\ result' = [result EXCEPT ![c] = ErrNotFound]
            /\ pc' = [pc EXCEPT ![c] = "Unlock"]
       ELSE LET err == MakePaymentError(loans[call[c].id], call[c].amount, call[c].week)
            IN  IF err # Nil
                THEN /\ result' = [result EXCEPT ![c] = err]
                     /\ pc' = [pc EXCEPT ![c] = "Unlock"]
                ELSE /\ pc' = [pc EXCEPT ![c] = "append"]
                     /\ UNCHANGED result
    /\ UNCHANGED <<view, loans, last, mu, call>>

\* l.Payments = append(l.Payments, payment)
RecordPayment(c) ==
    /\ pc[c] = "append"
    /\ loans' = [loans EXCEPT ![call[c].id] =
                     AppendPayment(@, call[c].amount, call[c].week)]
    /\ pc' = [pc EXCEPT ![c] = "mark"]
    /\ UNCHANGED <<view, last, mu, call, result>>

\* l.Schedule[scheduleIndex].IsPaid = true; return nil
UpdateSchedule(c) ==
    /\ pc[c] = "mark"
    /\ loans' = [loans EXCEPT ![call[c].id] = MarkPaid(@, call[c].week)]
    /\ result' = [result EXCEPT ![c] = Nil]
    /\ pc' = [pc EXCEPT ![c] = "Unlock"]
    /\ UNCHANGED <<view, last, mu, call>>

\* Variant: the call returns without releasing the lock
UnlockForgotten(c) ==
    /\ pc[c] = "Unlock"
    /\ pc' = [pc EXCEPT ![c] = "done"]
    /\ UNCHANGED <<view, loans, last, mu, call, result>>

\* defer s.mu.Unlock(), and the call returns
Unlock(c) ==
    /\ pc[c] = "Unlock"
    /\ mu' = [mu EXCEPT !.writer = 0]
    /\ pc' = [pc EXCEPT ![c] = "done"]
    /\ UNCHANGED <<view, loans, last, call, result>>

\* The loan after weeks 1..k have been paid with the exact amount
RECURSIVE PayWeeks(_, _)
PayWeeks(l, k) ==
    IF k = 0 THEN l
    ELSE LoanMakePayment(PayWeeks(l, k - 1), l.WeeklyPayment, k).loan

\* The registry holds one loan on which some weeks have been paid; last.pre
\* keeps the registry the callers started from
InitConc ==
    /\ \E p \in ConcPrincipals, k \in ConcPaidWeeks, b \in BorrowerIDs :
           LET l == NewLoan("loan-100", b, NewMoney(p), AnnualInterestRate)
           IN  loans = ("loan-100" :> PayWeeks(l, IF p > 0 THEN k ELSE 0))
    /\ last = [Idle EXCEPT !.op = "concurrent", !.pre = loans]
    /\ mu = Unlocked
    /\ pc = [c \in Callers |-> "idle"]
    /\ call = [c \in Callers |-> NoCall]
    /\ result = [c \in Callers |-> NoResult]
    /\ view = NoView

NextConc ==
    \/ \E c \in Callers, id \in LedgerIDs, a \in ConcAmounts, w \in ConcWeekInputs :
           BeginMakePayment(c, id, a, w)
    \/ \E c \in Callers : Lock(c)
    \/ \E c \in Callers : Validate(c)
    \/ \E c \in Callers : RecordPayment(c)
    \/ \E c \in Callers : UpdateSchedule(c)
    \/ \E c \in Callers : Unlock(c)

SpecConc == InitConc /\ [][NextConc]_vars

----------------------------------------------------------------------------
(* service/billing_service.go, the read operations among concurrent callers: *)
(* GetOutstanding, IsDelinquent, GetSchedule and GetPaymentHistory call      *)
(* s.GetLoan, which takes and releases the shared lock, and then query the   *)
(* loan it returned                                                          *)

ReadOps == {"GetOutstanding", "IsDelinquent", "GetSchedule", "GetPaymentHistory"}

\* The caller starts a call of one of the read operations
BeginRead(c, op, loanID) ==
    /\ pc[c] = "idle"
    /\ call' = [call EXCEPT ![c] = [op |-> op, id |-> loanID,
                                    amount |-> NoAmount, week |-> NoWeek]]
    /\ pc' = [pc EXCEPT ![c] = "RLock"]
    /\ UNCHANGED <<view, loans, last, mu, result>>

\* GetLoan: s.mu.RLock() waits until no writer holds the lock
RLock(c) ==
    /\ pc[c] = "RLock"
    /\ mu.writer = 0
    /\ mu' = [mu EXCEPT !.readers = @ \cup {c}]
    /\ pc' = [pc EXCEPT ![c] = "lookup"]
    /\ UNCHANGED <<view, loans, last, call, result>>

\* GetLoan: loan, exists := s.loans[loanID]
Lookup(c) ==
    /\ pc[c] = "lookup"
    /\ result' = [result EXCEPT ![c] =
                      IF ~Exists(call[c].id) THEN ErrNotFound
                      ELSE IF call[c].op = "GetLoan" THEN Nil
                      ELSE NoResult]
    /\ pc' = [pc EXCEPT ![c] = "RUnlock"]
    /\ UNCHANGED <<view, loans, last, mu, call>>

\* GetLoan: defer s.mu.RUnlock() and return; a GetLoan call is over, a read
\* operation returns the error if there is one and otherwise goes on to query
\* the loan
RUnlock(c) ==
    /\ pc[c] = "RUnlock"
    /\ mu' = [mu EXCEPT !.readers = @ \ {c}]
    /\ pc' = [pc EXCEPT ![c] = IF result[c] = NoResult THEN "query" ELSE "done"]
    /\ UNCHANGED <<view, loans, last, call, result>>

\* What the ledger query of a read operation returns on loan l
QueryValue(op, l) ==
    CASE op = "GetOutstanding" -> <<"GetOutstanding", GetOutstanding(l)>>
      [] op = "IsDelinquent" -> <<"IsDelinquent", IsDelinquent(l)>>
      [] op = "GetSchedule" -> <<"GetSchedule", GetSchedule(l).data>>
      [] op = "GetPaymentHistory" -> <<"GetPaymentHistory", GetPaymentHistory(l).data>>

\* The payments a caller is appending to loan loanID at this moment
BeingAppended(loanID) ==
    {call[w].week : w \in {v \in Callers : pc[v] = "append" /\ call[v].id = loanID}}

\* What an unlocked read of loan loanID can find: the loan as it is, or, while
\* another caller is appending a payment (a data race on l.Payments), a log
\* one element longer whose last element is not written yet (zero) or written
\* in part (the week number without the amount)
Readable(loanID) ==
    {loans[loanID]} \cup
    UNION {{[loans[loanID] EXCEPT !.Payments = Append(@, Payment(0, NewMoney(0)))],
            [loans[loanID] EXCEPT !.Payments = Append(@, Payment(week, NewMoney(0)))]} :
           week \in BeingAppended(loanID)}

\* return loan.GetOutstanding(), nil and its like: the loan is read with no lock
\* held
Query(c) ==
    /\ pc[c] = "query"
    /\ pc' = [pc EXCEPT ![c] = "done"]
    /\ \E l \in Readable(call[c].id) :
           result' = [result EXCEPT ![c] = QueryValue(call[c].op, l)]
    /\ UNCHANGED <<view, loans, last, mu, call>>

NextRace ==
    \/ \E c \in Callers, id \in LedgerIDs, a \in ConcAmounts, w \in ConcWeekInputs :
           BeginMakePayment(c, id, a, w)
    \/ \E c \in Callers : Lock(c)
    \/ \E c \in Callers : Validate(c)
    \/ \E c \in Callers : RecordPayment(c)
    \/ \E c \in Callers : UpdateSchedule(c)
    \/ \E c \in Callers : Unlock(c)
    \/ \E c \in Callers, op \in ReadOps, id \in LedgerIDs : BeginRead(c, op, id)
    \/ \E c \in Callers : RLock(c)
    \/ \E c \in Callers : Lookup(c)
    \/ \E c \in Callers : RUnlock(c)
    \/ \E c \in Callers : Query(c)

SpecRace == InitConc /\ [][NextRace]_vars

----------------------------------------------------------------------------
(* A concurrent caller that makes two read operations one after the other   *)
(* and compares what they returned                                          *)

\* The caller keeps the slice its read operation returned and is ready for its
\* next call
KeepRead(c) ==
    /\ pc[c] = "done"
    /\ call[c].op \in {"GetSchedule", "GetPaymentHistory"}
    /\ view = NoView
    /\ view' = [kind |-> call[c].op, id |-> call[c].id, array |-> "own",
                data |-> result[c][2], writes |-> 0, by |-> c]
    /\ pc' = [pc EXCEPT ![c] = "idle"]
    /\ call' = [call EXCEPT ![c] = NoCall]
    /\ result' = [result EXCEPT ![c] = NoResult]
    /\ UNCHANGED <<loans, last, mu>>

NextObserve ==
    \/ \E c \in Callers, id \in LedgerIDs, a \in ConcAmounts, w \in ConcWeekInputs :
           BeginMakePayment(c, id, a, w)
    \/ \E c \in Callers : Lock(c)
    \/ \E c \in Callers : Validate(c)
    \/ \E c \in Callers : RecordPayment(c)
    \/ \E c \in Callers : UpdateSchedule(c)
    \/ \E c \in Callers : Unlock(c)
    \/ \E c \in Callers, op \in {"GetSchedule", "GetPaymentHistory"},
          id \in LedgerIDs : BeginRead(c, op, id)
    \/ \E c \in Callers : RLock(c)
    \/ \E c \in Callers : Lookup(c)
    \/ \E c \in Callers : RUnlock(c)
    \/ \E c \in Callers : Query(c)
    \/ \E c \in Callers : KeepRead(c)

SpecObserve == InitConc /\ [][NextObserve]_vars

----------------------------------------------------------------------------
(* service/billing_service.go, CreateLoan and GetLoan among concurrent callers *)

\* The caller starts a call of BillingService.CreateLoan
BeginCreateLoan(c, loanID, principal) ==
    /\ pc[c] = "idle"
    /\ call' = [call EXCEPT ![c] = [op |-> "CreateLoan", id |-> loanID,
                                    amount |-> principal, week |-> NoWeek]]
    /\ pc' = [pc EXCEPT ![c] = "Lock"]
    /\ UNCHANGED <<view, loans, last, mu, result>>

\* The caller starts a call of BillingService.GetLoan
BeginGetLoan(c, loanID) ==
    /\ pc[c] = "idle"
    /\ call' = [call EXCEPT ![c] = [op |-> "GetLoan", id |-> loanID,
                                    amount |-> NoAmount, week |-> NoWeek]]
    /\ pc' = [pc EXCEPT ![c] = "RLock"]
    /\ UNCHANGED <<view, loans, last, mu, result>>

\* if _, exists := s.loans[loanID]; exists { return nil, error }
CheckExists(c) ==
    /\ pc[c] = "exists"
    /\ IF Exists(call[c].id)
       THEN /\ result' = [result EXCEPT ![c] = ErrAlreadyExists]
            /\ pc' = [pc EXCEPT ![c] = "Unlock"]
       ELSE /\ pc' = [pc EXCEPT ![c] = "insert"]
            /\ UNCHANGED result
    /\ UNCHANGED <<view, loans, last, mu, call>>

\* loan := domain.NewLoan(...); s.loans[loanID] = loan; return loan, nil
InsertLoan(c) ==
    /\ pc[c] = "insert"
    /\ \E b \in BorrowerIDs :
           loans' = [id \in DOMAIN loans \cup {call[c].id} |->
                        IF id = call[c].id
                        THEN NewLoan(id, b, call[c].amount, AnnualInterestRate)
                        ELSE loans[id]]
    /\ result' = [result EXCEPT ![c] = Nil]
    /\ pc' = [pc EXCEPT ![c] = "Unlock"]
    /\ UNCHANGED <<view, last, mu, call>>

NextCreate ==
    \/ \E c \in Callers, id \in LoanIDs, p \in ConcPrincipals :
           BeginCreateLoan(c, id, NewMoney(p))
    \/ \E c \in Callers, id \in LoanIDs : BeginGetLoan(c, id)
    \/ \E c \in Callers : Lock(c)
    \/ \E c \in Callers : CheckExists(c)
    \/ \E c \in Callers : InsertLoan(c)
    \/ \E c \in Callers : Unlock(c)
    \/ \E c \in Callers : RLock(c)
    \/ \E c \in Callers : Lookup(c)
    \/ \E c \in Callers : RUnlock(c)

SpecCreate == Init /\ [][NextCreate]_vars

----------------------------------------------------------------------------
(* service/billing_service.go, MakeNextPayment among concurrent callers, and *)
(* every kind of call made concurrently under a fair scheduler               *)

\* The caller starts a call of BillingService.MakeNextPayment
BeginMakeNextPayment(c, loanID, amount) ==
    /\ pc[c] = "idle"
    /\ call' = [call EXCEPT ![c] = [op |-> "MakeNextPayment", id |-> loanID,
                                    amount |-> amount, week |-> NoWeek]]
    /\ pc' = [pc EXCEPT ![c] = "Lock"]
    /\ UNCHANGED <<view, loans, last, mu, result>>

\* Variant: the next due week is taken to be the week after the last payment
\* on record, whatever the schedule says
FindNextWeekFromLog(c) ==
    /\ pc[c] = "next"
    /\ IF ~Exists(call[c].id)
       THEN /\ result' = [result EXCEPT ![c] = ErrNotFound]
            /\ pc' = [pc EXCEPT ![c] = "Unlock"]
            /\ UNCHANGED call
       ELSE /\ call' = [call EXCEPT ![c].week = Len(loans[call[c].id].Payments) + 2]
            /\ pc' = [pc EXCEPT ![c] = "validate"]
            /\ UNCHANGED result
    /\ UNCHANGED <<view, loans, last, mu>>

\* The map lookup, nextWeek := loan.GetNextDueWeek() and the test for 0; the
\* call goes on into loan.MakePayment(amount, nextWeek)
FindNextWeek(c) ==
    /\ pc[c] = "next"
    /\ IF ~Exists(call[c].id)
       THEN /\ result' = [result EXCEPT ![c] = ErrNotFound]
            /\ pc' = [pc EXCEPT ![c] = "Unlock"]
            /\ UNCHANGED call
       ELSE LET nextWeek == GetNextDueWeek(loans[call[c].id])
            IN  IF nextWeek = 0
                THEN /\ result' = [result EXCEPT ![c] = ErrLoanFullyPaid]
                     /\ pc' = [pc EXCEPT ![c] = "Unlock"]
                     /\ UNCHANGED call
                ELSE /\ call' = [call EXCEPT ![c].week = nextWeek]
                     /\ pc' = [pc EXCEPT ![c] = "validate"]
                     /\ UNCHANGED result
    /\ UNCHANGED <<view, loans, last, mu>>

\* The next statement of caller c's call
Step(c) ==
    \/ Lock(c)
    \/ CheckExists(c)
    \/ InsertLoan(c)
    \/ FindNextWeek(c)
    \/ Validate(c)
    \/ RecordPayment(c)
    \/ UpdateSchedule(c)
    \/ Unlock(c)
    \/ RLock(c)
    \/ Lookup(c)
    \/ RUnlock(c)
    \/ Query(c)

NextLive ==
    \/ \E c \in Callers, id \in LoanIDs :
           BeginCreateLoan(c, id, NewMoney(5000))
    \/ \E c \in Callers : BeginGetLoan(c, "loan-200")
    \/ \E c \in Callers : BeginMakePayment(c, "loan-100", 110000, 1)
    \/ \E c \in Callers : BeginMakeNextPayment(c, "loan-200", 110000)
    \/ \E c \in Callers : BeginRead(c, "GetOutstanding", "loan-100")
    \/ \E c \in Callers : BeginRead(c, "IsDelinquent", "loan-200")
    \/ \E c \in Callers : Step(c)

\* The scheduler runs every goroutine that can run, and the mutex is granted to
\* a waiting caller once it stays free
Fairness == \A c \in Callers : WF_vars(Step(c))

SpecLive == Init /\ [][NextLive]_vars /\ Fairness


----------------------------------------------------------------------------
(* Vocabulary of the properties *)

\* The last call was Loan.MakePayment on an existing loan, directly or through
\* BillingService.MakePayment
PaymentCall ==
    /\ last.op \in {"MakePayment", "Loan.MakePayment"}
    /\ last.id \in DOMAIN last.pre

\* The last call was BillingService.MakeNextPayment on an existing loan
NextPaymentCall ==
    /\ last.op = "MakeNextPayment"
    /\ last.id \in DOMAIN last.pre

\* The loan the last call addressed, before and after the call
PreLoan == last.pre[last.id]
PostLoan == loans[last.id]

Weeks == 1 .. LoanDurationWeeks

PaidWeeks(l) == {w \in DOMAIN l.Schedule : l.Schedule[w].IsPaid}

UnpaidWeeks(l) == {w \in DOMAIN l.Schedule : ~l.Schedule[w].IsPaid}

\* The lowest unpaid week of a loan, 0 when every week is paid
LowestUnpaidWeek(l) ==
    IF UnpaidWeeks(l) = {} THEN 0
    ELSE CHOOSE w \in UnpaidWeeks(l) : \A v \in UnpaidWeeks(l) : w <= v

\* Weeks 1..n, and nothing else, have been paid, in order
PaidInOrder(l, n) ==
    /\ Len(l.Payments) = n
    /\ \A i \in 1 .. n : l.Payments[i].WeekNumber = i
    /\ PaidWeeks(l) = 1 .. n

\* Total minus the amounts of the recorded payments, summed over the log's indices
RECURSIVE SumAmounts(_, _)
SumAmounts(payments, idx) ==
    IF idx = {} THEN 0
    ELSE LET i == CHOOSE j \in idx : TRUE
         IN  payments[i].Amount + SumAmounts(payments, idx \ {i})

----------------------------------------------------------------------------
(* C1: the six checks of Loan.MakePayment *)

Check1Fails == last.amount < 0
Check2Fails == last.amount # PreLoan.WeeklyPayment
Check3Fails == GetOutstanding(PreLoan) = 0
Check4Fails == last.week \notin Weeks
Check5Fails == last.week \in Weeks /\ PreLoan.Schedule[last.week].IsPaid
Check6Fails == last.week # LowestUnpaidWeek(PreLoan)

\* C1: Loan.MakePayment reports the first failing check of the six, in the
\* order negative amount, wrong amount, fully paid, week out of range, week
\* already paid, out of sequence: an input failing check k and passing checks
\* 1..k-1 yields the error of check k, and the call succeeds iff all six pass.
C1_FirstFailingCheckWins ==
    PaymentCall =>
        /\ Check1Fails => last.err = ErrNegativeAmount
        /\ ~Check1Fails /\ Check2Fails => last.err = ErrInvalidPaymentAmount
        /\ ~Check1Fails /\ ~Check2Fails /\ Check3Fails => last.err = ErrLoanFullyPaid
        /\ ~Check1Fails /\ ~Check2Fails /\ ~Check3Fails /\ Check4Fails
               => last.err = ErrInvalidWeekNumber
        /\ ~Check1Fails /\ ~Check2Fails /\ ~Check3Fails /\ ~Check4Fails /\ Check5Fails
               => last.err = ErrWeekAlreadyPaid
        /\ ~Check1Fails /\ ~Check2Fails /\ ~Check3Fails /\ ~Check4Fails /\ ~Check5Fails
               /\ Check6Fails
               => last.err = ErrPaymentOutOfSequence
        /\ last.err = Nil <=>
               ~(Check1Fails \/ Check2Fails \/ Check3Fails \/ Check4Fails
                 \/ Check5Fails \/ Check6Fails)

\* A fully paid loan is offered the exact amount for week 0: checks 3 and 4 both
\* fail and check 3 is reported
C1_Witness ==
    /\ PaymentCall
    /\ ~Check1Fails /\ ~Check2Fails /\ Check3Fails /\ Check4Fails
    /\ Len(PreLoan.Payments) = LoanDurationWeeks
    /\ last.err = ErrLoanFullyPaid

----------------------------------------------------------------------------
(* C2: the sequence law *)

\* The last call offered the exact weekly amount to a loan on which weeks 1..n,
\* and nothing else, had been paid in order
ExactAfter(n) ==
    /\ PaymentCall
    /\ PaidInOrder(PreLoan, n)
    /\ last.amount = PreLoan.WeeklyPayment

\* C2 as claimed: for every n, after weeks 1..n have been paid in order, the
\* exact amount for week n fails with ErrWeekAlreadyPaid, for week n+2 fails
\* with ErrPaymentOutOfSequence, and for week n+1 succeeds.
C2_SequenceLawEveryN ==
    \A n \in 1 .. LoanDurationWeeks :
        ExactAfter(n) =>
            /\ last.week = n => last.err = ErrWeekAlreadyPaid
            /\ last.week = n + 2 => last.err = ErrPaymentOutOfSequence
            /\ last.week = n + 1 => last.err = Nil

\* C2 as amended: the law holds for 1 <= n <= LoanDurationWeeks - 2; with all
\* but one week paid, week n is still ErrWeekAlreadyPaid and week n+1 still
\* succeeds but week n+2 is out of range and fails with ErrInvalidWeekNumber;
\* with every week paid each of the three attempts fails with ErrLoanFullyPaid.
C2_SequenceLaw ==
    /\ \A n \in 1 .. (LoanDurationWeeks - 2) :
           ExactAfter(n) =>
               /\ last.week = n => last.err = ErrWeekAlreadyPaid
               /\ last.week = n + 2 => last.err = ErrPaymentOutOfSequence
               /\ last.week = n + 1 => last.err = Nil /\ PaidInOrder(PostLoan, n + 1)
    /\ ExactAfter(LoanDurationWeeks - 1) =>
           /\ last.week = LoanDurationWeeks - 1 => last.err = ErrWeekAlreadyPaid
           /\ last.week = LoanDurationWeeks + 1 => last.err = ErrInvalidWeekNumber
           /\ last.week = LoanDurationWeeks =>
                  last.err = Nil /\ PaidInOrder(PostLoan, LoanDurationWeeks)
    /\ ExactAfter(LoanDurationWeeks) => last.err = ErrLoanFullyPaid

\* Weeks 1..7 are paid and the exact amount is offered for week 9
C2_Witness ==
    /\ ExactAfter(7)
    /\ last.week = 9
    /\ last.err = ErrPaymentOutOfSequence

----------------------------------------------------------------------------
(* C3: concurrent payments of the same week *)

\* The loan the concurrent callers started from, and its next due week
StartLoan == last.pre["loan-100"]
DueWeek == LowestUnpaidWeek(StartLoan)

\* Every caller has called MakePayment for the same loan with the exact weekly
\* amount for the loan's next due week, and every call has returned
SameWeekCallsReturned ==
    \A c \in Callers :
        /\ pc[c] = "done"
        /\ call[c] = [op |-> "MakePayment", id |-> "loan-100",
                      amount |-> StartLoan.WeeklyPayment, week |-> DueWeek]

Winners == {c \in Callers : result[c] = Nil}

PaymentsFor(l, w) == {i \in DOMAIN l.Payments : l.Payments[i].WeekNumber = w}

\* C3 as claimed: of N concurrent MakePayment calls for the same loan, its next
\* due week and the exact amount, exactly one succeeds and every other fails
\* with ErrWeekAlreadyPaid or ErrPaymentOutOfSequence; afterwards the log holds
\* exactly one Payment for that week and the schedule entry is paid.  (Stated
\* here for loans that still owe something, where a payment can succeed at all.)
C3_OneWinnerOthersAlreadyPaid ==
    (SameWeekCallsReturned /\ GetOutstanding(StartLoan) # 0) =>
        /\ Cardinality(Winners) = 1
        /\ \A c \in Callers \ Winners :
               result[c] \in {ErrWeekAlreadyPaid, ErrPaymentOutOfSequence}
        /\ Cardinality(PaymentsFor(loans["loan-100"], DueWeek)) = 1
        /\ loans["loan-100"].Schedule[DueWeek].IsPaid

\* C3 as amended: on a loan whose outstanding amount is not zero, exactly one of
\* the N calls succeeds and every other fails with ErrWeekAlreadyPaid, or with
\* ErrLoanFullyPaid when the week is the last one (week 50); afterwards the log
\* holds exactly one Payment for that week, the schedule entry is paid and
\* nothing else has changed.  On a loan whose outstanding amount is zero (a
\* zero principal) every call fails with ErrLoanFullyPaid and nothing changes.
C3_OneWinnerPerWeek ==
    SameWeekCallsReturned =>
        IF GetOutstanding(StartLoan) # 0
        THEN /\ Cardinality(Winners) = 1
             /\ \A c \in Callers \ Winners :
                    result[c] = IF DueWeek < LoanDurationWeeks
                                THEN ErrWeekAlreadyPaid ELSE ErrLoanFullyPaid
             /\ Cardinality(PaymentsFor(loans["loan-100"], DueWeek)) = 1
             /\ loans["loan-100"] =
                    MarkPaid(AppendPayment(StartLoan, StartLoan.WeeklyPayment, DueWeek),
                             DueWeek)
        ELSE /\ Winners = {}
             /\ \A c \in Callers : result[c] = ErrLoanFullyPaid
             /\ loans = last.pre

\* All callers have paid week 2 of a loan with week 1 paid: one has won
C3_Witness ==
    /\ SameWeekCallsReturned
    /\ DueWeek = 2
    /\ Cardinality(Winners) = 1
    /\ \A c \in Callers \ Winners : result[c] = ErrWeekAlreadyPaid

\* All callers have paid the last week of a loan: the losers see a closed loan
C3_WitnessLastWeek ==
    /\ SameWeekCallsReturned
    /\ DueWeek = LoanDurationWeeks
    /\ Cardinality(Winners) = 1
    /\ \A c \in Callers \ Winners : result[c] = ErrLoanFullyPaid

----------------------------------------------------------------------------
(* C4: a rejected payment changes nothing *)

\* C4: whenever Loan.MakePayment, BillingService.MakePayment or MakeNextPayment
\* returns an error, the registry mapping and the loan (its Payments, every
\* IsPaid flag, CurrentWeek) are what they were before the call.
C4_RejectedPaymentIsNoOp ==
    (last.op \in {"MakePayment", "Loan.MakePayment", "MakeNextPayment"}
        /\ last.err # Nil)
    => /\ DOMAIN loans = DOMAIN last.pre
       /\ \A id \in DOMAIN loans :
              /\ loans[id].Payments = last.pre[id].Payments
              /\ \A w \in Weeks :
                     loans[id].Schedule[w].IsPaid = last.pre[id].Schedule[w].IsPaid
              /\ loans[id].CurrentWeek = last.pre[id].CurrentWeek
              /\ loans[id] = last.pre[id]

\* A loan with payments on record rejects an out-of-sequence payment
C4_Witness ==
    /\ PaymentCall
    /\ last.err = ErrPaymentOutOfSequence
    /\ Len(PreLoan.Payments) = 3
    /\ PreLoan.CurrentWeek = 2

----------------------------------------------------------------------------
(* C5: a fully paid loan *)

AllWeeksPaid(l) == PaidWeeks(l) = Weeks

\* C5 as claimed: once all 50 weeks are paid, IsClosed() is true,
\* GetOutstanding() is zero and any further MakePayment, whatever its amount and
\* week number, returns ErrLoanFullyPaid.
C5_FullyPaidRejectsEverything ==
    /\ \A id \in DOMAIN loans :
           AllWeeksPaid(loans[id]) =>
               IsClosed(loans[id]) /\ GetOutstanding(loans[id]) = 0
    /\ (PaymentCall /\ AllWeeksPaid(PreLoan)) => last.err = ErrLoanFullyPaid

\* C5 as amended: once all 50 weeks are paid, IsClosed() is true,
\* GetOutstanding() is zero, and any further MakePayment with the exact weekly
\* amount returns ErrLoanFullyPaid whatever its week number; a negative amount
\* still returns ErrNegativeAmount and any other amount ErrInvalidPaymentAmount.
C5_FullyPaidRejectsExactAmount ==
    /\ \A id \in DOMAIN loans :
           AllWeeksPaid(loans[id]) =>
               IsClosed(loans[id]) /\ GetOutstanding(loans[id]) = 0
    /\ (PaymentCall /\ AllWeeksPaid(PreLoan)) =>
           /\ last.amount = PreLoan.WeeklyPayment => last.err = ErrLoanFullyPaid
           /\ last.amount < 0 => last.err = ErrNegativeAmount
           /\ (last.amount >= 0 /\ last.amount # PreLoan.WeeklyPayment)
                  => last.err = ErrInvalidPaymentAmount

\* All 50 weeks are paid and the exact amount is offered for the out-of-range
\* week 51
C5_Witness ==
    /\ PaymentCall
    /\ AllWeeksPaid(PreLoan)
    /\ last.amount = PreLoan.WeeklyPayment
    /\ last.week = LoanDurationWeeks + 1
    /\ last.err = ErrLoanFullyPaid
    /\ IsClosed(PostLoan)

----------------------------------------------------------------------------
(* C6: the outstanding amount *)

\* C6: GetOutstanding() is TotalAmount minus the sum of the recorded payments'
\* amounts, which after k successful payments is TotalAmount - k * WeeklyPayment;
\* a successful payment lowers it by exactly WeeklyPayment and a failed one
\* leaves it unchanged.
C6_OutstandingIsTotalMinusPayments ==
    /\ \A id \in DOMAIN loans :
           LET l == loans[id]
           IN  /\ GetOutstanding(l) =
                      l.TotalAmount - SumAmounts(l.Payments, DOMAIN l.Payments)
               /\ GetOutstanding(l) =
                      l.TotalAmount - Len(l.Payments) * l.WeeklyPayment
    /\ (PaymentCall \/ NextPaymentCall) =>
           IF last.err = Nil
           THEN /\ Len(PostLoan.Payments) = Len(PreLoan.Payments) + 1
                /\ GetOutstanding(PostLoan) =
                       GetOutstanding(PreLoan) - PreLoan.WeeklyPayment
           ELSE /\ Len(PostLoan.Payments) = Len(PreLoan.Payments)
                /\ GetOutstanding(PostLoan) = GetOutstanding(PreLoan)

\* The fourth payment has just succeeded
C6_Witness ==
    /\ PaymentCall
    /\ last.err = Nil
    /\ Len(PostLoan.Payments) = 4
    /\ GetOutstanding(PostLoan) = PostLoan.TotalAmount - 4 * PostLoan.WeeklyPayment
    /\ GetOutstanding(PostLoan) > 0

----------------------------------------------------------------------------
(* C8: the next due week *)

\* n is the largest week whose schedule entry is paid, 0 when none is
LargestPaidWeek(l, n) ==
    /\ n = 0 \/ (n \in DOMAIN l.Schedule /\ l.Schedule[n].IsPaid)
    /\ \A w \in DOMAIN l.Schedule : l.Schedule[w].IsPaid => w <= n

\* The loan's clock is k weeks past its largest paid week
WeeksBehind(l, k) == LargestPaidWeek(l, l.CurrentWeek - k)

\* The last call recorded a payment on an existing loan
PaymentRecorded ==
    /\ last.op \in {"MakePayment", "MakeNextPayment", "Loan.MakePayment"}
    /\ last.id \in DOMAIN last.pre
    /\ last.err = Nil

\* C7: in every state reached through SetCurrentWeek and MakePayment,
\* IsDelinquent() is true exactly when CurrentWeek minus the largest paid week
\* (0 when no week is paid) is at least 2; a fresh loan at week 1 is not
\* delinquent; a delinquent loan exactly 2 weeks behind is no longer delinquent
\* after one further successful payment.
C7_DelinquentIffTwoWeeksBehind ==
    /\ \A id \in DOMAIN loans :
           IsDelinquent(loans[id]) <=>
               \E k \in 2 .. LoanDurationWeeks : WeeksBehind(loans[id], k)
    /\ (last.op = "CreateLoan" /\ last.err = Nil) =>
           /\ PostLoan.CurrentWeek = 1
           /\ ~IsDelinquent(PostLoan)
    /\ (/\ PaymentRecorded
        /\ WeeksBehind(PreLoan, 2)) =>
           /\ IsDelinquent(PreLoan)
           /\ ~IsDelinquent(PostLoan)

\* A loan with 17 weeks paid and the clock at week 19 is delinquent, and the
\* payment of week 18 ends the delinquency
C7_Witness ==
    /\ PaymentRecorded
    /\ Len(PreLoan.Payments) = 17
    /\ PreLoan.CurrentWeek = 19
    /\ IsDelinquent(PreLoan)
    /\ ~IsDelinquent(PostLoan)

\* A loan more than 2 weeks behind stays delinquent after a payment
C7_WitnessStillBehind ==
    /\ PaymentRecorded
    /\ WeeksBehind(PreLoan, 3)
    /\ IsDelinquent(PostLoan)

\* C8: GetNextDueWeek() is 1 on a fresh loan, goes up by exactly one with each
\* successful payment, is unchanged by a failed payment and by SetCurrentWeek,
\* and is 0 exactly when all 50 weeks are paid; it is len(Payments) + 1 while
\* len(Payments) < 50 and 0 otherwise.
C8_NextDueWeek ==
    /\ \A id \in DOMAIN loans :
           LET l == loans[id]
           IN  /\ GetNextDueWeek(l) =
                      IF Len(l.Payments) < LoanDurationWeeks
                      THEN Len(l.Payments) + 1 ELSE 0
               /\ GetNextDueWeek(l) = 0 <=> AllWeeksPaid(l)
    /\ (last.op = "CreateLoan" /\ last.err = Nil) => GetNextDueWeek(PostLoan) = 1
    /\ (PaymentCall \/ NextPaymentCall) =>
           IF last.err # Nil
           THEN GetNextDueWeek(PostLoan) = GetNextDueWeek(PreLoan)
           ELSE IF GetNextDueWeek(PreLoan) < LoanDurationWeeks
           THEN GetNextDueWeek(PostLoan) = GetNextDueWeek(PreLoan) + 1
           ELSE GetNextDueWeek(PostLoan) = 0
    /\ last.op = "SetCurrentWeek" => GetNextDueWeek(PostLoan) = GetNextDueWeek(PreLoan)

\* The payment of week 50 has just succeeded and no week is due any more
C8_Witness ==
    /\ PaymentCall
    /\ last.err = Nil
    /\ GetNextDueWeek(PreLoan) = LoanDurationWeeks
    /\ GetNextDueWeek(PostLoan) = 0

----------------------------------------------------------------------------
(* C9: MakeNextPayment *)

\* C9: on an existing loan, MakeNextPayment(id, amount) returns ErrLoanFullyPaid
\* for every amount and changes nothing when the loan has no unpaid week;
\* otherwise its result and effect are those of MakePayment(id, amount, w) with
\* w the loan's lowest unpaid week, so with the exact weekly amount it pays
\* exactly week w.
C9_MakeNextPaymentPaysLowestUnpaidWeek ==
    NextPaymentCall =>
        LET w == LowestUnpaidWeek(PreLoan)
            r == LoanMakePayment(PreLoan, last.amount, w)
        IN  IF UnpaidWeeks(PreLoan) = {}
            THEN last.err = ErrLoanFullyPaid /\ loans = last.pre
            ELSE /\ last.err = r.err
                 /\ loans = [last.pre EXCEPT ![last.id] = r.loan]
                 /\ (last.amount = PreLoan.WeeklyPayment /\ last.err = Nil) =>
                        /\ PaidWeeks(PostLoan) = PaidWeeks(PreLoan) \cup {w}
                        /\ PostLoan.Payments =
                               Append(PreLoan.Payments, Payment(w, last.amount))

\* MakeNextPayment is offered a negative amount on a loan with every week paid
C9_Witness ==
    /\ NextPaymentCall
    /\ UnpaidWeeks(PreLoan) = {}
    /\ last.amount < 0
    /\ last.err = ErrLoanFullyPaid

\* MakeNextPayment with the exact amount pays week 3 of a loan
C9_WitnessPays ==
    /\ NextPaymentCall
    /\ LowestUnpaidWeek(PreLoan) = 3
    /\ last.err = Nil
    /\ PaidWeeks(PostLoan) = 1 .. 3

----------------------------------------------------------------------------
(* C10: CreateLoan *)

C10_WitnessInsert ==
    /\ last.op = "CreateLoan"
    /\ last.err = Nil
    /\ \E id \in DOMAIN last.pre : Len(last.pre[id].Payments) = 2

\* C11 as claimed: CreateLoan is idempotent on the identifier: called with an
\* identifier that already exists it returns the existing loan and no error.
C11_CreateLoanReturnsExisting ==
    (last.op = "CreateLoan" /\ last.id \in DOMAIN last.pre) =>
        /\ last.err = Nil
        /\ last.ret = last.id
        /\ loans = last.pre

\* IsClosed(), "all 50 payments are recorded" and "no week is due" agree on loan l
ClosedIffAllPaid(l) ==
    /\ IsClosed(l) <=> (Len(l.Payments) = LoanDurationWeeks)
    /\ IsClosed(l) <=> (GetNextDueWeek(l) = 0)

\* C12 as claimed: in every reachable state of every loan with principal >= 0,
\* IsClosed() == (len(Payments) == 50) == (GetNextDueWeek() == 0).
C12_ClosedIffAllPaidFromZero ==
    \A id \in DOMAIN loans :
        loans[id].Principal >= 0 => ClosedIffAllPaid(loans[id])

\* C12: in every reachable state of every loan with principal > 0,
\* IsClosed() == (len(Payments) == 50) == (GetNextDueWeek() == 0); a loan
\* with principal 0 is closed from its creation, with no payment recorded and
\* week 1 as its next due week.
C12_ClosedIffAllPaid ==
    \A id \in DOMAIN loans :
        /\ loans[id].Principal > 0 => ClosedIffAllPaid(loans[id])
        /\ loans[id].Principal = 0 =>
               /\ IsClosed(loans[id])
               /\ loans[id].Payments = << >>
               /\ GetNextDueWeek(loans[id]) = 1

\* The payment of week 50 closes a loan that was open with 49 payments
C12_Witness ==
    /\ PaymentRecorded
    /\ PreLoan.Principal > 0
    /\ Len(PreLoan.Payments) = LoanDurationWeeks - 1
    /\ ~IsClosed(PreLoan)
    /\ GetNextDueWeek(PreLoan) = LoanDurationWeeks
    /\ IsClosed(PostLoan)
    /\ GetNextDueWeek(PostLoan) = 0

\* The registry operations that take a loan identifier
IdentifierOps ==
    {"GetLoan", "GetOutstanding", "IsDelinquent", "GetSchedule",
     "GetPaymentHistory", "MakePayment", "MakeNextPayment"}

\* What each query returns beside its error when it fails
ZeroValue(op) ==
    CASE op = "GetOutstanding" -> <<NewMoney(0)>>
      [] op = "IsDelinquent" -> <<FALSE>>
      [] OTHER -> << >>

\* C13: every registry operation that takes a loan identifier (GetLoan,
\* GetOutstanding, IsDelinquent, GetSchedule, GetPaymentHistory, MakePayment,
\* MakeNextPayment) fails with the loan-not-found error when the identifier was
\* never created, and then changes neither the registry nor any loan.
C13_UnknownLoanNotFound ==
    (last.op \in IdentifierOps /\ last.id \notin DOMAIN last.pre) =>
        /\ last.err = ErrNotFound
        /\ last.ret = NoLoan
        /\ last.val = ZeroValue(last.op)
        /\ loans = last.pre

\* A payment is attempted on an identifier never created while the registry
\* holds another loan with payments on record
C13_Witness ==
    /\ last.op = "MakeNextPayment"
    /\ last.id \notin DOMAIN last.pre
    /\ last.amount = 110000
    /\ \E id \in DOMAIN loans : Len(loans[id].Payments) = 2

\* The schedule of an identifier never created is asked for
C13_WitnessQuery ==
    /\ last.op = "GetSchedule"
    /\ last.id \notin DOMAIN last.pre
    /\ \E id \in DOMAIN loans : Len(loans[id].Payments) = 2

\* C14: GetOutstanding() is never negative in any state reached from NewLoan
\* with principal >= 0 and rate >= 0 through MakePayment and SetCurrentWeek
\* calls, and the number of recorded payments never exceeds 50.
C14_OutstandingNeverNegative ==
    \A id \in DOMAIN loans :
        (loans[id].Principal >= 0 /\ loans[id].InterestRate >= 0) =>
            /\ ~IsNegative(GetOutstanding(loans[id]))
            /\ GetOutstanding(loans[id]) <= loans[id].TotalAmount
            /\ Len(loans[id].Payments) <= LoanDurationWeeks

\* The 50th payment brings the outstanding amount of a loan from one weekly
\* payment down to zero
C14_Witness ==
    /\ PaymentRecorded
    /\ Len(PostLoan.Payments) = LoanDurationWeeks
    /\ GetOutstanding(PreLoan) = PreLoan.WeeklyPayment
    /\ PreLoan.WeeklyPayment > 0
    /\ GetOutstanding(PostLoan) = 0

\* A 51st payment with the exact amount is attempted on a closed loan
C14_WitnessFurtherPayment ==
    /\ PaymentCall
    /\ Len(PreLoan.Payments) = LoanDurationWeeks
    /\ PreLoan.Principal > 0
    /\ last.amount = PreLoan.WeeklyPayment
    /\ last.err = ErrLoanFullyPaid

\* C15: SetCurrentWeek(week) sets CurrentWeek to week when 1 <= week <= 50 and
\* otherwise leaves it unchanged, signalling no error; CurrentWeek is in 1..50
\* in every state reached from NewLoan (where it is 1) through SetCurrentWeek
\* and MakePayment.
C15_CurrentWeekInTerm ==
    /\ \A id \in DOMAIN loans : loans[id].CurrentWeek \in Weeks
    /\ (last.op = "CreateLoan" /\ last.err = Nil) => PostLoan.CurrentWeek = 1
    /\ last.op = "SetCurrentWeek" =>
           /\ last.err = Nil
           /\ PostLoan = [PreLoan EXCEPT !.CurrentWeek =
                             IF last.week \in Weeks THEN last.week ELSE @]
           /\ loans = [last.pre EXCEPT ![last.id] = PostLoan]
    /\ (last.op \in {"MakePayment", "MakeNextPayment"}
            /\ last.id \in DOMAIN last.pre) =>
           PostLoan.CurrentWeek = PreLoan.CurrentWeek

\* Week 51 is asked for on a loan whose clock is at week 50 and that has
\* payments on record
C15_Witness ==
    /\ last.op = "SetCurrentWeek"
    /\ last.week = LoanDurationWeeks + 1
    /\ PreLoan.CurrentWeek = LoanDurationWeeks
    /\ PostLoan.CurrentWeek = LoanDurationWeeks
    /\ Len(PreLoan.Payments) = 7

\* Week 0 is asked for on a loan whose clock was moved before
C15_WitnessWeekZero ==
    /\ last.op = "SetCurrentWeek"
    /\ last.week = 0
    /\ PostLoan.CurrentWeek = 23

\* The clock is moved back from week 50 to week 1
C15_WitnessSet ==
    /\ last.op = "SetCurrentWeek"
    /\ last.week = 1
    /\ PreLoan.CurrentWeek = LoanDurationWeeks
    /\ PostLoan.CurrentWeek = 1

\* C16: NewLoan computes TotalAmount = principal + principal * rate (flat
\* interest) and a WeeklyPayment with WeeklyPayment * 50 == TotalAmount exactly,
\* for every principal (principal 5,000 at 10% gives total 5,500 and weekly
\* payment 110, the documented 5,000,000 / 5,500,000 / 110,000 in thousands), so
\* that 50 exact payments bring the outstanding amount to exactly zero.
C16_FiftyWeeklyPaymentsAreTheTotal ==
    /\ \A id \in DOMAIN loans :
           LET l == loans[id]
           IN  /\ l.TotalAmount =
                      l.Principal + (l.Principal * l.InterestRate) \div Scale
               /\ (l.Principal * l.InterestRate) % Scale = 0
               /\ LoanDurationWeeks * l.WeeklyPayment = l.TotalAmount
               /\ l.Principal = NewMoney(5000) =>
                      /\ l.TotalAmount = NewMoney(5500)
                      /\ l.WeeklyPayment = NewMoney(110)
               /\ GetOutstanding(l) =
                      l.TotalAmount - Len(l.Payments) * l.WeeklyPayment
               /\ Len(l.Payments) = LoanDurationWeeks => GetOutstanding(l) = 0
    /\ (NextPaymentCall /\ PreLoan.Principal > 0
            /\ Len(PreLoan.Payments) < LoanDurationWeeks
            /\ last.amount = PreLoan.WeeklyPayment) =>
           last.err = Nil

\* The 50th exact payment of a loan of principal 7 (total 7.7, weekly payment
\* 0.154) brings its outstanding amount to zero
C16_Witness ==
    /\ PaymentRecorded
    /\ PreLoan.Principal = NewMoney(7)
    /\ PreLoan.WeeklyPayment = 154
    /\ Len(PostLoan.Payments) = LoanDurationWeeks
    /\ GetOutstanding(PostLoan) = 0

\* The same for the loan of principal 5,000
C16_WitnessExample ==
    /\ PaymentRecorded
    /\ PreLoan.Principal = NewMoney(5000)
    /\ Len(PostLoan.Payments) = LoanDurationWeeks
    /\ GetOutstanding(PostLoan) = 0

\* The last call returned a slice of an existing loan
SliceReturned ==
    /\ last.op \in {"GetSchedule", "GetPaymentHistory"}
    /\ last.err = Nil

\* C17: GetSchedule() and GetPaymentHistory() return independent copies: the
\* slice returned holds the loan's entries; no step changes both the registry
\* and a slice a caller keeps, so writing to, truncating or appending to a
\* returned slice never changes the loan's Schedule or Payments, and a later
\* successful MakePayment never changes a slice returned earlier.
C17_ReturnedSlicesAreCopies ==
    [][/\ loans' = loans \/ view' = view
       /\ SliceReturned' =>
              last'.val[1].data =
                  IF last'.op = "GetSchedule" THEN loans[last'.id].Schedule
                  ELSE loans[last'.id].Payments]_vars

\* A caller changed the schedule slice it was returned, and a payment made
\* afterwards is in the loan's schedule and not in the slice
C17_Witness ==
    /\ PaymentRecorded
    /\ view.kind = "GetSchedule"
    /\ view.id = last.id
    /\ view.writes = MaxWrites
    /\ view.data # PreLoan.Schedule
    /\ PostLoan.Schedule[2].IsPaid
    /\ ~view.data[2].IsPaid

\* A caller overwrote an amount in the payment history it was returned, and the
\* loan's own log still holds the amount paid
C17_WitnessHistory ==
    /\ view.kind = "GetPaymentHistory"
    /\ view.writes = MaxWrites
    /\ Len(view.data) = 2
    /\ view.data[1].Amount = NewMoney(0)
    /\ loans[view.id].Payments[1].Amount = loans[view.id].WeeklyPayment
    /\ Len(loans[view.id].Payments) = 3

\* C18: in every reachable loan state the recorded payments' week numbers are
\* exactly 1, 2, ..., len(Payments) in that order: the i-th payment in the log
\* has WeekNumber i, and a Payment for week N+1 never exists without a Payment
\* for week N.
C18_PaymentLogInWeekOrder ==
    \A id \in DOMAIN loans :
        LET payments == loans[id].Payments
        IN  /\ \A i \in DOMAIN payments : payments[i].WeekNumber = i
            \* the Payment for week N is the one right before that for week N+1
            /\ \A i \in DOMAIN payments :
                   payments[i].WeekNumber > 1 =>
                       /\ i > 1
                       /\ payments[i - 1].WeekNumber = payments[i].WeekNumber - 1

\* The payment of week 31 is appended to a log that holds weeks 1..30
C18_Witness ==
    /\ PaymentRecorded
    /\ last.op = "MakePayment"
    /\ last.week = 31
    /\ Len(PreLoan.Payments) = 30
    /\ PostLoan.Payments[31].WeekNumber = 31

\* C19: in every state between completed ledger operations a schedule entry
\* for week w has IsPaid == true iff the payment log holds a Payment with
\* WeekNumber w, and then exactly one; so the number of paid entries equals
\* len(Payments) and the paid entries are exactly weeks 1..len(Payments).
C19_ScheduleAgreesWithLog ==
    \A id \in DOMAIN loans :
        LET schedule == loans[id].Schedule
            payments == loans[id].Payments
        IN  \* the log holds at most one Payment per week: its i-th is week i's
            /\ \A i \in DOMAIN payments : payments[i].WeekNumber = i
            /\ Len(payments) <= Len(schedule)
            \* so week w has a Payment exactly when w <= len(Payments)
            /\ \A w \in DOMAIN schedule :
                   /\ schedule[w].WeekNumber = w
                   /\ schedule[w].IsPaid <=> w \in DOMAIN payments
            /\ Cardinality(PaidWeeks(loans[id])) = Len(payments)
            /\ PaidWeeks(loans[id]) = 1 .. Len(payments)

\* A rejected payment for week 12 follows the payment of weeks 1..11: entries
\* 1..11 are paid, entry 12 is not
C19_Witness ==
    /\ PaymentCall
    /\ last.err = ErrInvalidPaymentAmount
    /\ last.week = 12
    /\ Len(PostLoan.Payments) = 11
    /\ PostLoan.Schedule[11].IsPaid
    /\ ~PostLoan.Schedule[12].IsPaid

\* The callers inside a ledger query of a read operation
Readers == {c \in Callers : pc[c] = "query"}

\* The callers inside Loan.MakePayment, the critical section of a payment
Writers == {c \in Callers : pc[c] \in {"validate", "append", "mark"}}

\* C20 as claimed: every registry operation runs to completion holding the
\* registry lock in its mode: a read operation reads the loan's Payments,
\* Schedule and CurrentWeek while it holds the shared lock, so in no reachable
\* state is a reader inside a ledger query while a writer is inside
\* Loan.MakePayment.
C20_NoReadDuringPayment ==
    Readers = {} \/ Writers = {}

\* Caller c was returned the payment history of a loan, kept it, and was then
\* returned the schedule of the same loan
HistoryThenSchedule(c) ==
    /\ pc[c] = "done"
    /\ call[c].op = "GetSchedule"
    /\ view.by = c
    /\ view.kind = "GetPaymentHistory"
    /\ view.id = call[c].id

\* Caller c was returned the schedule of a loan, kept it, and was then returned
\* the payment history of the same loan
ScheduleThenHistory(c) ==
    /\ pc[c] = "done"
    /\ call[c].op = "GetPaymentHistory"
    /\ view.by = c
    /\ view.kind = "GetSchedule"
    /\ view.id = call[c].id

\* Caller c was returned the payment history of a loan
HistoryRead(c) == pc[c] = "done" /\ call[c].op = "GetPaymentHistory"

\* A payment log as it is between completed payments: week i's payment of the
\* weekly amount at place i
WholePayments(payments, l) ==
    \A i \in DOMAIN payments :
        /\ payments[i].WeekNumber = i
        /\ payments[i].Amount = l.WeeklyPayment

\* C21 as claimed: a successful payment is atomic for every observer using the
\* registry concurrently: a read never returns a payment applied in part, and
\* the reads of one caller never show a Payment for a week whose schedule entry
\* is unpaid, nor the reverse: a week seen in the payment history is paid in a
\* schedule read afterwards, and a week seen paid in a schedule is in a payment
\* history read afterwards.
C21_PaymentAtomicForObservers ==
    \A c \in Callers :
        /\ HistoryRead(c) => WholePayments(result[c][2], loans[call[c].id])
        /\ HistoryThenSchedule(c) =>
               \A i \in DOMAIN view.data :
                   view.data[i].WeekNumber \in DOMAIN result[c][2] =>
                       result[c][2][view.data[i].WeekNumber].IsPaid
        /\ ScheduleThenHistory(c) =>
               \A w \in DOMAIN view.data :
                   view.data[w].IsPaid =>
                       \E i \in DOMAIN result[c][2] :
                           result[c][2][i].WeekNumber = w

\* Loan b is loan a some operations later: nothing paid is unpaid, the log is
\* a's log with payments appended, no more is outstanding, closed stays closed
LaterThan(a, b) ==
    /\ \A w \in DOMAIN a.Schedule :
           a.Schedule[w].IsPaid => b.Schedule[w].IsPaid
    /\ Len(a.Payments) <= Len(b.Payments)
    /\ SubSeq(b.Payments, 1, Len(a.Payments)) = a.Payments
    /\ GetOutstanding(b) <= GetOutstanding(a)
    /\ IsClosed(a) => IsClosed(b)

\* C22: a loan's history is monotonic: over every operation a schedule entry's
\* IsPaid never goes from true back to false, the payment log only grows by
\* appending (existing entries are never changed or removed), GetOutstanding()
\* never increases, and a loan for which IsClosed() is true stays closed.
C22_HistoryIsMonotonic ==
    \A id \in DOMAIN last.pre :
        /\ id \in DOMAIN loans
        /\ LaterThan(last.pre[id], loans[id])

\* The 21st payment is appended to a log of 20 and lowers the outstanding amount
C22_Witness ==
    /\ PaymentRecorded
    /\ Len(PreLoan.Payments) = 20
    /\ Len(PostLoan.Payments) = 21
    /\ GetOutstanding(PostLoan) < GetOutstanding(PreLoan)
    /\ ~IsClosed(PostLoan)

\* The clock of a closed loan is moved and the loan stays closed
C22_WitnessClosed ==
    /\ last.op = "SetCurrentWeek"
    /\ Len(PreLoan.Payments) = LoanDurationWeeks
    /\ IsClosed(PreLoan)
    /\ PostLoan.CurrentWeek # PreLoan.CurrentWeek
    /\ IsClosed(PostLoan)

\* The fields of a loan that construction fixes
Terms(l) ==
    <<l.ID, l.BorrowerID, l.Principal, l.InterestRate, l.TotalAmount,
      l.WeeklyPayment>>

\* C23: the constants fixed at construction are never changed by any operation:
\* in every reachable state the schedule has exactly 50 entries, entry i
\* (0-based) has WeekNumber i+1 and Amount == WeeklyPayment, and ID, BorrowerID,
\* Principal, InterestRate, TotalAmount and WeeklyPayment equal their values at
\* construction; MakePayment changes only Payments and one IsPaid flag.
C23_TermsNeverChange ==
    /\ \A id \in DOMAIN loans :
           LET l == loans[id]
           IN  /\ Len(l.Schedule) = LoanDurationWeeks
               /\ \A w \in DOMAIN l.Schedule :
                      /\ l.Schedule[w].WeekNumber = w
                      /\ l.Schedule[w].Amount = l.WeeklyPayment
               /\ Terms(l) =
                      Terms(NewLoan(id, l.BorrowerID, l.Principal, AnnualInterestRate))
    /\ \A id \in DOMAIN last.pre : Terms(loans[id]) = Terms(last.pre[id])
    /\ PaymentRecorded =>
           \E w \in Weeks :
               /\ ~PreLoan.Schedule[w].IsPaid
               /\ PostLoan = [PreLoan EXCEPT
                                 !.Payments = Append(@, Payment(w, last.amount)),
                                 !.Schedule[w].IsPaid = TRUE]

\* The payment of week 34 is recorded on a loan of principal 5,000
C23_Witness ==
    /\ PaymentRecorded
    /\ Len(PreLoan.Payments) = 33
    /\ PostLoan.Schedule[34].IsPaid
    /\ PostLoan.Principal = NewMoney(5000)
    /\ PostLoan.Schedule[34].Amount = 110000

\* The callers whose CreateLoan call for loanID has returned, and those among
\* them it returned a loan to
Creators(loanID) ==
    {c \in Callers : pc[c] = "done" /\ call[c].op = "CreateLoan" /\ call[c].id = loanID}

Created(loanID) == {c \in Creators(loanID) : result[c] = Nil}

C24_WitnessGetLoan ==
    \E c, d, e \in Callers :
        /\ pc[c] = "done" /\ call[c].op = "GetLoan" /\ result[c] = ErrNotFound
        /\ pc[d] = "done" /\ call[d].op = "CreateLoan" /\ result[d] = Nil
        /\ pc[e] = "done" /\ call[e].op = "GetLoan" /\ result[e] = Nil
        /\ call[c].id = call[d].id /\ call[e].id = call[d].id

\* Caller c holds the lock only inside its call: exclusively between Lock and
\* Unlock, shared between RLock and RUnlock
HoldsOnlyInside(c) ==
    /\ mu.writer = c <=>
           pc[c] \in {"exists", "insert", "next", "validate", "append", "mark", "Unlock"}
    /\ c \in mu.readers <=> pc[c] \in {"lookup", "RUnlock"}

InCall(c) == pc[c] \notin {"idle", "done"}

\* C25: the registry never deadlocks: each operation holds the registry lock
\* only between one acquisition and its release (exclusively from Lock to
\* Unlock, shared from RLock to RUnlock, the read wrappers only inside GetLoan),
\* so a call that has returned holds nothing, error returns included; and of
\* the concurrent calls every one that has started eventually returns.
C25_EveryCallReturns ==
    /\ [](\A c \in Callers : HoldsOnlyInside(c))
    /\ \A c \in Callers : InCall(c) ~> (pc[c] = "done")

\* Three concurrent calls have returned, two of them with an error, and the
\* lock is free
C25_Witness ==
    /\ \A c \in Callers : pc[c] = "done"
    /\ mu = Unlocked
    /\ \E c \in Callers : call[c].op = "MakeNextPayment" /\ result[c] = ErrNotFound
    /\ \E c \in Callers : call[c].op = "CreateLoan" /\ result[c] = ErrAlreadyExists

----------------------------------------------------------------------------
(* Payments and the loan's clock *)

\* Loan l with its clock at week w
AtWeek(l, w) == [l EXCEPT !.CurrentWeek = w]

\* Loan l had SetCurrentWeek never been called on it: NewLoan sets week 1
NeverSet(l) == AtWeek(l, 1)

\* What of a loan the claim compares: payments (week numbers and amounts),
\* schedule, outstanding amount and next due week
Ledger(l) == <<l.Payments, l.Schedule, GetOutstanding(l), GetNextDueWeek(l)>>

\* What the last payment call does on loan l: the error and the loan after it
SamePayment(l) ==
    IF last.op = "MakeNextPayment"
    THEN IF GetNextDueWeek(l) = 0
         THEN [err |-> ErrLoanFullyPaid, loan |-> l]
         ELSE LoanMakePayment(l, last.amount, GetNextDueWeek(l))
    ELSE LoanMakePayment(l, last.amount, last.week)

\* C26: payment acceptance is independent of CurrentWeek: the payment call just
\* made returns what it returns on the same loan on which SetCurrentWeek was
\* never called, and leaves the same payments (week numbers and amounts),
\* schedule, outstanding amount and next due week, whatever week the loan's
\* clock is at (so two loans of one principal that get the same payment calls
\* and different SetCurrentWeek calls agree after every call); SetCurrentWeek
\* changes nothing of a loan except CurrentWeek.
C26_PaymentIgnoresCurrentWeek ==
    /\ PaymentCall \/ NextPaymentCall =>
           LET r == SamePayment(NeverSet(PreLoan))
           IN  /\ r.err = last.err
               /\ Ledger(r.loan) = Ledger(PostLoan)
               /\ PostLoan.CurrentWeek = PreLoan.CurrentWeek
    /\ last.op = "SetCurrentWeek" =>
           /\ PostLoan = AtWeek(PreLoan, PostLoan.CurrentWeek)
           /\ Ledger(PostLoan) = Ledger(PreLoan)
           /\ PostLoan.CurrentWeek \in {PreLoan.CurrentWeek, last.week}

\* With the clock set to week 2, week 4 has been paid
C26_Witness ==
    /\ PaymentRecorded
    /\ PreLoan.CurrentWeek = 2
    /\ Len(PostLoan.Payments) = 4
    /\ PostLoan.Schedule[4].IsPaid

\* The clock has been set back on a loan with payments
C26_WitnessClock ==
    /\ last.op = "SetCurrentWeek"
    /\ Len(PreLoan.Payments) = 3
    /\ PreLoan.CurrentWeek = 50
    /\ PostLoan.CurrentWeek = 1

----------------------------------------------------------------------------
(* The loans of the registry, one beside the other *)

\* The loans the last call was not made on
OtherLoans == DOMAIN last.pre \ {last.id}

\* Loan id is as it was before the last call
Untouched(id) ==
    /\ id \in DOMAIN loans
    /\ loans[id] = last.pre[id]
    /\ loans[id].Payments = last.pre[id].Payments
    /\ loans[id].Schedule = last.pre[id].Schedule
    /\ loans[id].CurrentWeek = last.pre[id].CurrentWeek
    /\ GetOutstanding(loans[id]) = GetOutstanding(last.pre[id])

\* C27: loans in the registry are isolated: a call made on loan A (MakePayment,
\* MakeNextPayment, and every other call by identifier), whether it succeeds or
\* fails, leaves the Payments, Schedule, CurrentWeek and outstanding amount of
\* every other loan B unchanged, and CreateLoan of a new identifier adds that
\* loan and leaves all existing loans unchanged.
C27_LoansAreIsolated ==
    /\ last.op # "none" => \A id \in OtherLoans : Untouched(id)
    /\ last.op = "CreateLoan" /\ last.id \notin DOMAIN last.pre =>
           /\ DOMAIN loans = DOMAIN last.pre \cup {last.id}
           /\ \A id \in DOMAIN last.pre : Untouched(id)

\* A payment has been accepted on one loan while the other loan, with one
\* payment made and its clock at week 2, is as it was
C27_Witness ==
    /\ PaymentRecorded
    /\ \E id \in OtherLoans :
           /\ Len(loans[id].Payments) = 1
           /\ loans[id].CurrentWeek = 2
           /\ Len(PostLoan.Payments) = 2

\* A payment has been refused on one loan while the other loan is open
C27_WitnessRefused ==
    /\ PaymentCall \/ NextPaymentCall
    /\ last.err = ErrInvalidPaymentAmount
    /\ \E id \in OtherLoans : ~IsClosed(loans[id]) /\ Len(loans[id].Payments) = 1

\* A second loan has been created beside a loan with payments
C27_WitnessCreate ==
    /\ last.op = "CreateLoan"
    /\ last.err = Nil
    /\ \E id \in DOMAIN last.pre : Len(loans[id].Payments) = 2

----------------------------------------------------------------------------
(* Paying a loan off with MakeNextPayment, by concurrent callers, while the   *)
(* loan's clock is set and other payments are refused                         *)

\* Weeks paid before the callers start
ClosePaidWeeks == 0 .. (LoanDurationWeeks - 1)

\* The loan after weeks 1..k have been paid with the exact amount, one after
\* the other: k payments on the log and the first k schedule entries paid
PaidThrough(l, k) ==
    [l EXCEPT !.Payments = [i \in 1 .. k |-> Payment(i, l.WeeklyPayment)],
              !.Schedule = [i \in DOMAIN l.Schedule |->
                                [l.Schedule[i] EXCEPT !.IsPaid = (i <= k)]]]

\* Weeks the clock is set to meanwhile
CloseClockWeeks == {2, LoanDurationWeeks}

InitClose ==
    /\ \E p \in ConcPrincipals, k \in ClosePaidWeeks, b \in BorrowerIDs :
           LET l == NewLoan("loan-100", b, NewMoney(p), AnnualInterestRate)
           IN  loans = ("loan-100" :> PaidThrough(l, IF p > 0 THEN k ELSE 0))
    /\ last = [Idle EXCEPT !.op = "concurrent", !.pre = loans]
    /\ mu = Unlocked
    /\ pc = [c \in Callers |-> "idle"]
    /\ call = [c \in Callers |-> NoCall]
    /\ result = [c \in Callers |-> NoResult]
    /\ view = NoView

\* loan.SetCurrentWeek(week) by a caller that holds the *Loan: no lock is taken
SetCurrentWeekUnlocked(loanID, week) ==
    /\ Exists(loanID)
    /\ loans' = [loans EXCEPT ![loanID] = LoanSetCurrentWeek(@, week)]
    /\ UNCHANGED <<view, last, mu, pc, call, result>>

NextClose ==
    \/ \E c \in Callers, a \in ConcAmounts : BeginMakeNextPayment(c, "loan-100", a)
    \/ \E c \in Callers : BeginMakePayment(c, "loan-100", 0, 1)
    \/ \E w \in CloseClockWeeks : SetCurrentWeekUnlocked("loan-100", w)
    \/ \E c \in Callers : Lock(c)
    \/ \E c \in Callers : FindNextWeek(c)
    \/ \E c \in Callers : Validate(c)
    \/ \E c \in Callers : RecordPayment(c)
    \/ \E c \in Callers : UpdateSchedule(c)
    \/ \E c \in Callers : Unlock(c)

SpecClose == InitClose /\ [][NextClose]_vars

\* The callers of MakeNextPayment, and those whose call has been accepted
NextPayers == {c \in Callers : call[c].op = "MakeNextPayment"}
Accepted == {c \in NextPayers : result[c] = Nil}

\* The callers whose payment is on the log with its schedule entry yet to mark
Marking == {c \in Callers : pc[c] = "mark"}

\* C28: a loan can always be driven to closure: on a loan with positive
\* principal and k < 50 payments, MakeNextPayment with the exact weekly amount
\* succeeds while a week is unpaid (and is refused only once the loan is
\* closed), also among concurrent callers, calls of SetCurrentWeek and refused
\* payments; the successes pay distinct consecutive weeks k+1, k+2, ...; when
\* the 50th payment is made IsClosed() is true; and MakeNextPayment never
\* returns ErrWeekAlreadyPaid, ErrPaymentOutOfSequence or ErrInvalidWeekNumber.
C28_LoanCanBeDrivenToClosure ==
    LET l == loans["loan-100"]
        k == Len(StartLoan.Payments)
        n == Len(l.Payments)
    IN  /\ \A c \in NextPayers :
               result[c] \notin {ErrWeekAlreadyPaid, ErrPaymentOutOfSequence,
                                 ErrInvalidWeekNumber}
        /\ StartLoan.Principal > 0 =>
               /\ \A c \in NextPayers :
                      call[c].amount = l.WeeklyPayment =>
                          /\ result[c] \in {NoResult, Nil, ErrLoanFullyPaid}
                          /\ result[c] = ErrLoanFullyPaid =>
                                 n = LoanDurationWeeks /\ IsClosed(l)
               /\ n = k + Cardinality(Accepted) + Cardinality(Marking)
               /\ n <= LoanDurationWeeks
               /\ \A i \in 1 .. n :
                      /\ l.Payments[i] = Payment(i, l.WeeklyPayment)
                      /\ l.Schedule[i].IsPaid \/ (i = n /\ Marking # {})
               /\ \A i \in (n + 1) .. LoanDurationWeeks : ~l.Schedule[i].IsPaid
               /\ IsClosed(l) <=> n = LoanDurationWeeks

\* Three concurrent MakeNextPayment calls with the exact amount have paid weeks
\* 48, 49 and 50 of a loan whose clock was set meanwhile, and the loan is closed
C28_Witness ==
    /\ \A c \in Callers : pc[c] = "done" /\ c \in Accepted
    /\ Len(StartLoan.Payments) = LoanDurationWeeks - NumCallers
    /\ loans["loan-100"].CurrentWeek = 2
    /\ IsClosed(loans["loan-100"])

\* Of three concurrent callers on a loan with 49 weeks paid, one has paid week
\* 50, one was refused because the loan is closed, one for a wrong amount
C28_WitnessRefused ==
    /\ \A c \in Callers : pc[c] = "done"
    /\ Len(StartLoan.Payments) = LoanDurationWeeks - 1
    /\ Cardinality(Accepted) = 1
    /\ \E c \in NextPayers : result[c] = ErrLoanFullyPaid
    /\ \E c \in Callers : result[c] = ErrInvalidPaymentAmount

=============================================================================
